---- MODULE Spec2Model ----
(***************************************************************************)
(* Model of charlton/desc.py: Term, ModelDesc, IntermediateExpr and the    *)
(* Evaluator that turns a formula parse tree into a ModelDesc.             *)
(*                                                                         *)
(* The evaluator is a pure post-order tree walk.  The state machine below  *)
(* builds parse trees bottom-up on a stack; every action is the evaluation *)
(* of one new node by the rule the Evaluator has registered for it, given  *)
(* the results of evaluating its operands.  A Python exception is a value  *)
(* (kind "Err") that every rule hands on from the first operand it         *)
(* evaluates that raised it, in the order the code evaluates them.         *)
(***************************************************************************)
EXTENDS Integers, Sequences, FiniteSets, TLC

\* ------------------------------------------------------------------ bounds
\* Most parse-tree nodes of a formula, per family of formulas (see Families).
MaxNodes == 5
MaxSumNodes == 7
MaxInteractionNodes == 8
MaxProductNodes == 7
MaxPowerNodes == 7
\* Most sub-trees waiting on the stack for their parent.
MaxStack == 3

\* The text of NUMBER tokens ("0" and "1" are the ZERO and ONE tokens).
NumberTexts == {"2", "3", "1.5"}

\* None, for intercept_origin and for an exception that carries no origin.
None == 0

Range(s) == {s[i] : i \in DOMAIN s}

\* ------------------------------------------------------------------- Term
\* to_unique_tuple on a sequence of factors: drops every element equal to an
\* earlier one, keeps the order of the first occurrences.
to_unique_tuple(seq) ==
    LET F[i \in 0..Len(seq)] ==
            IF i = 0 THEN <<>>
            ELSE LET seen == F[i-1] IN
                 IF \E j \in 1..Len(seen) : seen[j] = seq[i]
                 THEN seen
                 ELSE Append(seen, seq[i])
    IN  F[Len(seq)]

\* Term(factors): a Term is modelled by its .factors tuple.
Term(factors) == to_unique_tuple(factors)

\* An equality of terms that compares the factor tuples, order included.
TermEq_ordered(t, u) == t = u

\* Term.__eq__ (and __hash__): the frozensets of the factors are equal.
TermEq(t, u) == Range(t) = Range(u)

INTERCEPT == Term(<<>>)

\* `term in terms` / `term not in terms`: Python's tuple membership by __eq__.
TermIn(t, terms) == \E i \in DOMAIN terms : TermEq(terms[i], t)

\* to_unique_tuple on a sequence of Terms: equality is Term.__eq__.
to_unique_terms(seq) ==
    LET F[i \in 0..Len(seq)] ==
            IF i = 0 THEN <<>>
            ELSE LET seen == F[i-1] IN
                 IF TermIn(seq[i], seen)
                 THEN seen
                 ELSE Append(seen, seq[i])
    IN  F[Len(seq)]

\* Term.name(): the factor names joined with ":", as the sequence of lexemes
\* a tokenizer cuts the string into ("a:b" is a, :, b).
TermName(t) ==
    IF Len(t) > 0
    THEN [i \in 1..(2 * Len(t) - 1) |-> IF i % 2 = 1 THEN t[(i + 1) \div 2] ELSE ":"]
    ELSE <<"Intercept">>

\* -------------------------------------------------------------- exceptions
MsgUnknownOp   == "I don't know how to evaluate this operator"
MsgTilde       == "~ can only be used once, and only at the top level"
MsgCustom      == "custom operator returned an object that I don't know how to handle"
MsgInteract    == "intercept term cannot interact with anything else"
MsgPower       == "'**' requires a positive integer"
MsgUnaryMinus  == "Unary minus can only be applied to 1 or 0"
MsgNumber      == "numbers besides '0' and '1' are only allowed with **"
MsgAssert      == "AssertionError"

\* raise CharltonError(message, origin): origin is an Origin, or an object
\* with an .origin attribute (a ParseNode, a Token) standing for that origin.
CharltonError(msg, origin) == [kind |-> "Err", msg |-> msg, origin |-> origin]

AssertionError == [kind |-> "Err", msg |-> MsgAssert, origin |-> None]

IsErr(v) == v.kind = "Err"
IsIE(v)  == v.kind = "IE"
IsMD(v)  == v.kind = "MD"

\* -------------------------------------------------------------- ModelDesc
ModelDesc(lhs_termlist, rhs_termlist) ==
    [kind |-> "MD",
     lhs_termlist |-> to_unique_terms(lhs_termlist),
     rhs_termlist |-> to_unique_terms(rhs_termlist)]

\* ------------------------------------------------------- IntermediateExpr
IntermediateExpr(intercept, intercept_origin, intercept_removed, terms) ==
    IF intercept /\ intercept_origin = None THEN AssertionError
    ELSE IF intercept /\ intercept_removed THEN AssertionError
    ELSE [kind |-> "IE",
          intercept |-> intercept,
          intercept_origin |-> intercept_origin,
          intercept_removed |-> intercept_removed,
          terms |-> to_unique_terms(terms)]

\* ------------------------------------------------------------ parse trees
\* ParseNode: type, args, origin, and token.extra for the leaves.
ParseNode(type, args, origin, extra) ==
    [type |-> type, args |-> args, origin |-> origin, extra |-> extra]

\* ----------------------------------------------------------------- rules
\* Every rule below is _eval_xxx(evaluator, tree).  vals[i] is what
\* evaluator.eval(tree.args[i]) returns or raises; a rule reads vals[i] only
\* where the code calls evaluator.eval on that operand, and in that order.

_maybe_add_intercept(doit, terms) ==
    IF doit THEN <<INTERCEPT>> \o terms ELSE terms

\* _eval_any_tilde with the implicit intercept given to both sides.
_eval_any_tilde_both_implicit(tree, vals) ==
    IF \E i \in DOMAIN vals : IsErr(vals[i])
    THEN vals[CHOOSE i \in DOMAIN vals :
                 IsErr(vals[i]) /\ \A j \in 1..(i-1) : ~IsErr(vals[j])]
    ELSE LET inserted == IntermediateExpr(FALSE, None, TRUE, <<>>)
             exprs == IF Len(vals) = 1 THEN <<inserted>> \o vals ELSE vals
         IN  ModelDesc(
                 _maybe_add_intercept(~exprs[1].intercept_removed, exprs[1].terms),
                 _maybe_add_intercept(~exprs[2].intercept_removed, exprs[2].terms))

_eval_any_tilde(tree, vals) ==
    IF \E i \in DOMAIN vals : IsErr(vals[i])
    THEN vals[CHOOSE i \in DOMAIN vals :
                 IsErr(vals[i]) /\ \A j \in 1..(i-1) : ~IsErr(vals[j])]
    ELSE LET inserted == IntermediateExpr(FALSE, None, TRUE, <<>>)
             exprs == IF Len(vals) = 1 THEN <<inserted>> \o vals ELSE vals
         IN  IF Len(exprs) # 2 THEN AssertionError
             ELSE ModelDesc(
                      _maybe_add_intercept(exprs[1].intercept, exprs[1].terms),
                      _maybe_add_intercept(~exprs[2].intercept_removed,
                                           exprs[2].terms))

\* _eval_binary_plus without the special case for a literal 0 on the right.
_eval_binary_plus_no_zero_case(tree, vals) ==
    LET left_expr == vals[1]
        right_expr == vals[2]
    IN  IF IsErr(left_expr) THEN left_expr
        ELSE IF IsErr(right_expr) THEN right_expr
        ELSE IF right_expr.intercept
        THEN IntermediateExpr(TRUE, right_expr.intercept_origin, FALSE,
                              left_expr.terms \o right_expr.terms)
        ELSE IntermediateExpr(left_expr.intercept,
                              left_expr.intercept_origin,
                              left_expr.intercept_removed,
                              left_expr.terms \o right_expr.terms)

_eval_binary_plus(tree, vals) ==
    LET left_expr == vals[1] IN
    IF IsErr(left_expr) THEN left_expr
    ELSE IF tree.args[2].type = "ZERO"
    THEN IntermediateExpr(FALSE, None, TRUE, left_expr.terms)
    ELSE LET right_expr == vals[2] IN
         IF IsErr(right_expr) THEN right_expr
         ELSE IF right_expr.intercept
         THEN IntermediateExpr(TRUE, right_expr.intercept_origin, FALSE,
                               left_expr.terms \o right_expr.terms)
         ELSE IntermediateExpr(left_expr.intercept,
                               left_expr.intercept_origin,
                               left_expr.intercept_removed,
                               left_expr.terms \o right_expr.terms)

\* _eval_binary_minus that lets an intercept declared by the right operand
\* pass: the left operand's intercept state is always inherited.
_eval_binary_minus_inherits(tree, vals) ==
    LET left_expr == vals[1] IN
    IF IsErr(left_expr) THEN left_expr
    ELSE IF tree.args[2].type = "ZERO"
    THEN IntermediateExpr(TRUE, tree.args[2].origin, FALSE, left_expr.terms)
    ELSE IF tree.args[2].type = "ONE"
    THEN IntermediateExpr(FALSE, None, TRUE, left_expr.terms)
    ELSE LET right_expr == vals[2] IN
         IF IsErr(right_expr) THEN right_expr
         ELSE IntermediateExpr(left_expr.intercept,
                               left_expr.intercept_origin,
                               left_expr.intercept_removed,
                               SelectSeq(left_expr.terms,
                                         LAMBDA term : ~TermIn(term, right_expr.terms)))

\* In the ZERO branch the code passes the operand node tree.args[1] itself as
\* intercept_origin; an error raised with it is reported at that node's origin.
_eval_binary_minus(tree, vals) ==
    LET left_expr == vals[1] IN
    IF IsErr(left_expr) THEN left_expr
    ELSE IF tree.args[2].type = "ZERO"
    THEN IntermediateExpr(TRUE, tree.args[2].origin, FALSE, left_expr.terms)
    ELSE IF tree.args[2].type = "ONE"
    THEN IntermediateExpr(FALSE, None, TRUE, left_expr.terms)
    ELSE LET right_expr == vals[2] IN
         IF IsErr(right_expr) THEN right_expr
         ELSE LET terms == SelectSeq(left_expr.terms,
                                     LAMBDA term : ~TermIn(term, right_expr.terms))
              IN  IF right_expr.intercept
                  THEN IntermediateExpr(FALSE, None, TRUE, terms)
                  ELSE IntermediateExpr(left_expr.intercept,
                                        left_expr.intercept_origin,
                                        left_expr.intercept_removed,
                                        terms)

\* Returns the exception _check_interactable raises, or Passed.
Passed == [kind |-> "Passed"]

_check_interactable(expr) ==
    IF expr.intercept
    THEN CharltonError(MsgInteract, expr.intercept_origin)
    ELSE Passed

\* _interaction that builds each term from the right term's factors followed
\* by the left term's.
_interaction_right_first(left_expr, right_expr) ==
    IF IsErr(_check_interactable(left_expr)) THEN _check_interactable(left_expr)
    ELSE IF IsErr(_check_interactable(right_expr)) THEN _check_interactable(right_expr)
    ELSE LET nl == Len(left_expr.terms)
             nr == Len(right_expr.terms)
             terms == [k \in 1..(nl * nr) |->
                          Term(right_expr.terms[((k - 1) % nr) + 1]
                               \o left_expr.terms[((k - 1) \div nr) + 1])]
         IN  IntermediateExpr(FALSE, None, FALSE, terms)

_interaction(left_expr, right_expr) ==
    IF IsErr(_check_interactable(left_expr)) THEN _check_interactable(left_expr)
    ELSE IF IsErr(_check_interactable(right_expr)) THEN _check_interactable(right_expr)
    ELSE LET nl == Len(left_expr.terms)
             nr == Len(right_expr.terms)
             terms == [k \in 1..(nl * nr) |->
                          Term(left_expr.terms[((k - 1) \div nr) + 1]
                               \o right_expr.terms[((k - 1) % nr) + 1])]
         IN  IntermediateExpr(FALSE, None, FALSE, terms)

\* _eval_binary_prod that puts the interaction terms before the main effects.
_eval_binary_prod_interaction_first(tree, vals) ==
    IF IsErr(vals[1]) THEN vals[1]
    ELSE IF IsErr(vals[2]) THEN vals[2]
    ELSE LET inter == _interaction(vals[1], vals[2]) IN
         IF IsErr(inter) THEN inter
         ELSE IntermediateExpr(FALSE, None, FALSE,
                               inter.terms \o vals[1].terms \o vals[2].terms)

_eval_binary_prod(tree, vals) ==
    IF IsErr(vals[1]) THEN vals[1]
    ELSE IF IsErr(vals[2]) THEN vals[2]
    ELSE LET inter == _interaction(vals[1], vals[2]) IN
         IF IsErr(inter) THEN inter
         ELSE IntermediateExpr(FALSE, None, FALSE,
                               vals[1].terms \o vals[2].terms \o inter.terms)

\* left_factors: the factors of every term of terms, in order.
LeftFactors(terms) ==
    LET F[i \in 0..Len(terms)] ==
            IF i = 0 THEN <<>> ELSE F[i-1] \o terms[i]
    IN  F[Len(terms)]

\* _eval_binary_div that nests the right operand under each left term in
\* turn, as `:` would, instead of under the one combined left term.
_eval_binary_div_distributes(tree, vals) ==
    LET left_expr == vals[1]
        right_expr == vals[2]
    IN  IF IsErr(left_expr) THEN left_expr
        ELSE IF IsErr(right_expr) THEN right_expr
        ELSE LET inter == _interaction(left_expr, right_expr)
             IN  IF IsErr(inter) THEN inter
                 ELSE IntermediateExpr(FALSE, None, FALSE,
                                       left_expr.terms \o inter.terms)

_eval_binary_div(tree, vals) ==
    LET left_expr == vals[1]
        right_expr == vals[2]
    IN  IF IsErr(left_expr) THEN left_expr
        ELSE IF IsErr(right_expr) THEN right_expr
        ELSE IF IsErr(_check_interactable(left_expr))
        THEN _check_interactable(left_expr)
        ELSE LET left_combined_expr ==
                     IntermediateExpr(FALSE, None, FALSE,
                                      <<Term(LeftFactors(left_expr.terms))>>)
                 inter == _interaction(left_combined_expr, right_expr)
             IN  IF IsErr(inter) THEN inter
                 ELSE IntermediateExpr(FALSE, None, FALSE,
                                       left_expr.terms \o inter.terms)

_eval_binary_interact(tree, vals) ==
    IF IsErr(vals[1]) THEN vals[1]
    ELSE IF IsErr(vals[2]) THEN vals[2]
    ELSE _interaction(vals[1], vals[2])

\* int(expr) on the text of a ONE or NUMBER token; ValueError for the texts
\* that are no integer literal.
ValueError == -1

int(expr) ==
    CASE expr = "1" -> 1
      [] expr = "2" -> 2
      [] expr = "3" -> 3
      [] OTHER -> ValueError

Min(x, y) == IF x < y THEN x ELSE y

\* The loop of _eval_binary_power stopping one interaction order early.
PowerLoop_one_short(left_expr, power) ==
    LET L[i \in 0..(IF power > 2 THEN power - 2 ELSE 0)] ==
            IF i = 0
            THEN [big_expr |-> left_expr, all_terms |-> left_expr.terms]
            ELSE LET before == L[i-1]
                     big_expr == _interaction(left_expr, before.big_expr)
                 IN  [big_expr |-> big_expr,
                      all_terms |-> before.all_terms \o big_expr.terms]
    IN  L[IF power > 2 THEN power - 2 ELSE 0]

\* The loop `for i in xrange(1, power)` of _eval_binary_power: big_expr and
\* all_terms after its last iteration.
PowerLoop(left_expr, power) ==
    LET L[i \in 0..(IF power > 1 THEN power - 1 ELSE 0)] ==
            IF i = 0
            THEN [big_expr |-> left_expr, all_terms |-> left_expr.terms]
            ELSE LET before == L[i-1]
                     big_expr == _interaction(left_expr, before.big_expr)
                 IN  [big_expr |-> big_expr,
                      all_terms |-> before.all_terms \o big_expr.terms]
    IN  L[IF power > 1 THEN power - 1 ELSE 0]

_eval_binary_power(tree, vals) ==
    LET left_expr == vals[1] IN
    IF IsErr(left_expr) THEN left_expr
    ELSE IF IsErr(_check_interactable(left_expr))
    THEN _check_interactable(left_expr)
    ELSE LET power == IF tree.args[2].type \in {"ONE", "NUMBER"}
                         /\ int(tree.args[2].extra) # ValueError
                      THEN int(tree.args[2].extra)
                      ELSE -1
         IN  IF power < 1
             THEN CharltonError(MsgPower, tree.args[2].origin)
             ELSE IntermediateExpr(
                      FALSE, None, FALSE,
                      PowerLoop(left_expr,
                                Min(Len(left_expr.terms), power)).all_terms)

_eval_unary_plus(tree, vals) == vals[1]

\* _eval_unary_minus that declares the intercept of `-0` without recording
\* where it was declared.
_eval_unary_minus_without_origin(tree, vals) ==
    IF tree.args[1].type = "ZERO"
    THEN IntermediateExpr(TRUE, None, FALSE, <<>>)
    ELSE IF tree.args[1].type = "ONE"
    THEN IntermediateExpr(FALSE, None, TRUE, <<>>)
    ELSE CharltonError(MsgUnaryMinus, tree.origin)

_eval_unary_minus(tree, vals) ==
    IF tree.args[1].type = "ZERO"
    THEN IntermediateExpr(TRUE, tree.origin, FALSE, <<>>)
    ELSE IF tree.args[1].type = "ONE"
    THEN IntermediateExpr(FALSE, None, TRUE, <<>>)
    ELSE CharltonError(MsgUnaryMinus, tree.origin)

_eval_zero(tree, vals) == IntermediateExpr(FALSE, None, TRUE, <<>>)

\* _eval_one that lists the intercept as an explicit term instead of leaving
\* it pending.
_eval_one_explicit_term(tree, vals) ==
    IntermediateExpr(FALSE, None, FALSE, <<INTERCEPT>>)

_eval_one(tree, vals) == IntermediateExpr(TRUE, tree.origin, FALSE, <<>>)

_eval_number(tree, vals) == CharltonError(MsgNumber, tree.origin)

\* EvalFactor(tree.token.extra, ...): a factor is modelled by its code text.
_eval_python_expr(tree, vals) ==
    IntermediateExpr(FALSE, None, FALSE, <<Term(<<tree.extra>>)>>)

\* -------------------------------------------------------------- Evaluator
\* The keys of Evaluator._evaluators after __init__.
Evaluators ==
    {<<"~", 2>>, <<"~", 1>>, <<"+", 2>>, <<"-", 2>>, <<"*", 2>>, <<"/", 2>>,
     <<":", 2>>, <<"**", 2>>, <<"+", 1>>, <<"-", 1>>,
     <<"ZERO", 0>>, <<"ONE", 0>>, <<"NUMBER", 0>>, <<"PYTHON_EXPR", 0>>}

\* self._evaluators[key](self, tree)
Dispatch(key, tree, vals) ==
    CASE key = <<"~", 2>> -> _eval_any_tilde(tree, vals)
      [] key = <<"~", 1>> -> _eval_any_tilde(tree, vals)
      [] key = <<"+", 2>> -> _eval_binary_plus(tree, vals)
      [] key = <<"-", 2>> -> _eval_binary_minus(tree, vals)
      [] key = <<"*", 2>> -> _eval_binary_prod(tree, vals)
      [] key = <<"/", 2>> -> _eval_binary_div(tree, vals)
      [] key = <<":", 2>> -> _eval_binary_interact(tree, vals)
      [] key = <<"**", 2>> -> _eval_binary_power(tree, vals)
      [] key = <<"+", 1>> -> _eval_unary_plus(tree, vals)
      [] key = <<"-", 1>> -> _eval_unary_minus(tree, vals)
      [] key = <<"ZERO", 0>> -> _eval_zero(tree, vals)
      [] key = <<"ONE", 0>> -> _eval_one(tree, vals)
      [] key = <<"NUMBER", 0>> -> _eval_number(tree, vals)
      [] key = <<"PYTHON_EXPR", 0>> -> _eval_python_expr(tree, vals)

\* Evaluator.eval with the two isinstance branches exchanged: a ModelDesc
\* where an IntermediateExpr is required is reported as a custom operator's
\* bad result.
eval_tilde_as_custom(tree, vals, require_evalexpr) ==
    LET key == <<tree.type, Len(tree.args)>> IN
    IF key \notin Evaluators
    THEN CharltonError(MsgUnknownOp, tree.origin)
    ELSE LET result == Dispatch(key, tree, vals) IN
         IF IsErr(result) THEN result
         ELSE IF require_evalexpr /\ ~IsIE(result)
         THEN IF IsMD(result)
              THEN CharltonError(MsgCustom, tree.origin)
              ELSE CharltonError(MsgTilde, tree.origin)
         ELSE result

\* Evaluator.eval(tree, require_evalexpr), given what eval returns or raises
\* for each of tree.args.  (The unknown-operator error is raised with
\* tree.token, the node's own token.)
eval(tree, vals, require_evalexpr) ==
    LET key == <<tree.type, Len(tree.args)>> IN
    IF key \notin Evaluators
    THEN CharltonError(MsgUnknownOp, tree.origin)
    ELSE LET result == Dispatch(key, tree, vals) IN
         IF IsErr(result) THEN result
         ELSE IF require_evalexpr /\ ~IsIE(result)
         THEN IF IsMD(result)
              THEN CharltonError(MsgTilde, tree.origin)
              ELSE CharltonError(MsgCustom, tree.origin)
         ELSE result

\* Evaluator.eval as the recursive tree walk it is.
RECURSIVE eval_tree(_, _)
eval_tree(tree, require_evalexpr) ==
    eval(tree,
         [i \in 1..Len(tree.args) |-> eval_tree(tree.args[i], TRUE)],
         require_evalexpr)

\* ---------------------------------------------------- describe, from_formula
\* " + ".join(parts) / the lexemes of the joined string.
Join(parts) ==
    LET F[i \in 0..Len(parts)] ==
            IF i = 0 THEN <<>>
            ELSE IF i = 1 THEN parts[1]
            ELSE F[i-1] \o <<"+">> \o parts[i]
    IN  F[Len(parts)]

term_code(term) ==
    IF TermEq(term, INTERCEPT) THEN <<"1">> ELSE TermName(term)

\* describe() that never writes the "0" of a right-hand side without
\* intercept.
describe_without_zero(self) ==
    LET lhs == Join([i \in 1..Len(self.lhs_termlist) |->
                        term_code(self.lhs_termlist[i])])
        others == SelectSeq(self.rhs_termlist,
                            LAMBDA term : ~TermEq(term, INTERCEPT))
    IN  IF Len(self.rhs_termlist) = 1 /\ TermEq(self.rhs_termlist[1], INTERCEPT)
        THEN lhs \o <<"~">> \o term_code(INTERCEPT)
        ELSE lhs \o <<"~">>
                 \o Join([i \in 1..Len(others) |-> term_code(others[i])])

\* ModelDesc.describe(), as the lexemes of the string it returns.
describe(self) ==
    LET lhs == Join([i \in 1..Len(self.lhs_termlist) |->
                        term_code(self.lhs_termlist[i])])
        result == lhs \o <<"~">>
        others == SelectSeq(self.rhs_termlist,
                            LAMBDA term : ~TermEq(term, INTERCEPT))
        term_names ==
            (IF ~TermIn(INTERCEPT, self.rhs_termlist) THEN <<(<<"0">>)>> ELSE <<>>)
            \o [i \in 1..Len(others) |-> term_code(others[i])]
    IN  IF Len(self.rhs_termlist) = 1 /\ TermEq(self.rhs_termlist[1], INTERCEPT)
        THEN result \o term_code(INTERCEPT)
        ELSE result \o Join(term_names)

\* parse_formula on a leaf lexeme.
ParseLeaf(lexeme, origin) ==
    CASE lexeme = "0" -> ParseNode("ZERO", <<>>, origin, lexeme)
      [] lexeme = "1" -> ParseNode("ONE", <<>>, origin, lexeme)
      [] lexeme \in NumberTexts -> ParseNode("NUMBER", <<>>, origin, lexeme)
      [] OTHER -> ParseNode("PYTHON_EXPR", <<>>, origin, lexeme)

\* The last position of lexeme op in lex, 0 when there is none.
LastOf(op, lex) ==
    IF \E i \in DOMAIN lex : lex[i] = op
    THEN CHOOSE i \in DOMAIN lex :
             lex[i] = op /\ \A j \in (i+1)..Len(lex) : lex[j] # op
    ELSE 0

\* parse_formula on x : y : z (left-associative); off is the position of the
\* lexeme before lex in the whole text, a node's origin its lexeme's position.
RECURSIVE ParseInteraction(_, _)
ParseInteraction(lex, off) ==
    LET p == LastOf(":", lex) IN
    IF p = 0 THEN ParseLeaf(lex[1], off + 1)
    ELSE ParseNode(":",
                   <<ParseInteraction(SubSeq(lex, 1, p - 1), off),
                     ParseLeaf(lex[p + 1], off + p + 1)>>,
                   off + p, ":")

\* parse_formula on x + y + z (left-associative, ":" binds tighter).
RECURSIVE ParseSum(_, _)
ParseSum(lex, off) ==
    LET p == LastOf("+", lex) IN
    IF p = 0 THEN ParseInteraction(lex, off)
    ELSE ParseNode("+",
                   <<ParseSum(SubSeq(lex, 1, p - 1), off),
                     ParseInteraction(SubSeq(lex, p + 1, Len(lex)), off + p)>>,
                   off + p, "+")

\* parse_formula on the text describe() returns: [lhs] ~ rhs.
parse_formula(text) ==
    LET p == LastOf("~", text) IN
    IF p = 1
    THEN ParseNode("~", <<ParseSum(SubSeq(text, 2, Len(text)), 1)>>, 1, "~")
    ELSE ParseNode("~",
                   <<ParseSum(SubSeq(text, 1, p - 1), 0),
                     ParseSum(SubSeq(text, p + 1, Len(text)), p)>>,
                   p, "~")

\* ModelDesc.from_formula on a tree whose root rule returned (or raised)
\* result: Evaluator.eval(tree, require_evalexpr=False), then the assert.
from_formula_result(value) ==
    IF IsErr(value) THEN value
    ELSE IF ~IsMD(value) THEN AssertionError
    ELSE value

\* ModelDesc.from_formula(tree_or_string, factor_eval_env) on a string.
from_formula(text) ==
    from_formula_result(eval_tree(parse_formula(text), FALSE))

\* ---------------------------------------------------------- the formulas
\* The formulas evaluated are drawn from these families: the node types a
\* formula is built from, its factor names, the texts of its NUMBER tokens,
\* and its size.  In family "any" a node is built over any operands; in the
\* other (larger) families only over operands whose evaluation, where the
\* node's rule evaluates them, did not raise.
AllKeys == Evaluators

Families ==
    {[name |-> "any", keys |-> AllKeys, factors |-> {"a", "b"},
      numbers |-> {"2"}, limit |-> MaxNodes],
     [name |-> "sums",
      keys |-> {<<"PYTHON_EXPR", 0>>, <<"ZERO", 0>>, <<"ONE", 0>>,
                <<"+", 2>>, <<"-", 2>>, <<"~", 1>>, <<"~", 2>>},
      factors |-> {"a", "b", "c"}, numbers |-> {}, limit |-> MaxSumNodes],
     [name |-> "interactions",
      keys |-> {<<"PYTHON_EXPR", 0>>, <<":", 2>>, <<"-", 2>>, <<"~", 1>>},
      factors |-> {"a", "b", "c"}, numbers |-> {}, limit |-> MaxInteractionNodes],
     [name |-> "products",
      keys |-> {<<"PYTHON_EXPR", 0>>, <<"+", 2>>, <<":", 2>>, <<"*", 2>>,
                <<"/", 2>>},
      factors |-> {"a", "b", "c"}, numbers |-> {}, limit |-> MaxProductNodes],
     [name |-> "powers",
      keys |-> {<<"PYTHON_EXPR", 0>>, <<"ONE", 0>>, <<"NUMBER", 0>>,
                <<"+", 2>>, <<":", 2>>, <<"**", 2>>},
      factors |-> {"a", "b", "c"}, numbers |-> {"2", "3", "1.5"},
      limit |-> MaxPowerNodes]}

\* The operands (positions in tree.args) the rule for key calls
\* evaluator.eval on, whatever their type.
EvaluatedArgs(key) ==
    CASE key = <<"**", 2>> -> {1}
      [] key = <<"-", 1>> -> {}
      [] OTHER -> 1..key[2]

\* ---------------------------------------------------------- state machine
VARIABLES
    family,   \* the family the formula is drawn from
    stack,    \* the evaluated sub-trees, oldest first: [tree, vals, value]
    nodes,    \* the ParseNodes made so far; a node's origin is its number
    model,    \* what from_formula returned or raised for the finished tree
    text,     \* model.describe()
    model2,   \* from_formula(text)
    text2     \* model2.describe()

vars == <<family, stack, nodes, model, text, model2, text2>>

NotCalled == [kind |-> "NotCalled"]

Init ==
    /\ family \in Families
    /\ stack = <<>>
    /\ nodes = 0
    /\ model = NotCalled
    /\ text = <<>>
    /\ model2 = NotCalled
    /\ text2 = <<>>

\* evaluator.eval(tree) of a new node of the given type over the top `arity`
\* sub-trees of the stack.  An entry keeps the node, what eval returned or
\* raised for each operand, and what eval(tree) returns or raises (value).
EvalNode(type, arity, extra) ==
    /\ model = NotCalled
    /\ <<type, arity>> \in family.keys
    /\ nodes < family.limit
    /\ Len(stack) >= arity
    /\ arity = 0 => Len(stack) < MaxStack
    /\ LET n == Len(stack) - arity
           kids == SubSeq(stack, n + 1, Len(stack))
           tree == ParseNode(type, [i \in 1..arity |-> kids[i].tree],
                             nodes + 1, extra)
           vals == [i \in 1..arity |-> kids[i].value]
       IN  /\ family.name # "any" =>
                  \A i \in EvaluatedArgs(<<type, arity>>) : IsIE(vals[i])
           /\ stack' = Append(SubSeq(stack, 1, n),
                              [tree |-> tree, vals |-> vals,
                               value |-> eval(tree, vals, TRUE)])
    /\ nodes' = nodes + 1
    /\ UNCHANGED <<family, model, text, model2, text2>>

\* The factor names of the PYTHON_EXPR leaves of tree.
RECURSIVE FactorsOf(_)
FactorsOf(tree) ==
    IF tree.type = "PYTHON_EXPR" THEN {tree.extra}
    ELSE UNION {FactorsOf(tree.args[i]) : i \in DOMAIN tree.args}

\* The factor names are a, b, c in the order a formula first uses them (the
\* evaluator compares factor names only for equality).
FactorOrder == <<"a", "b", "c">>

NextFactors ==
    LET used == UNION {FactorsOf(stack[i].tree) : i \in DOMAIN stack}
    IN  {f \in family.factors :
            \A k \in DOMAIN FactorOrder :
                FactorOrder[k] = f =>
                    \A j \in 1..(k-1) : FactorOrder[j] \in used}

PushPythonExpr == \E f \in NextFactors : EvalNode("PYTHON_EXPR", 0, f)
PushZero == EvalNode("ZERO", 0, "0")
PushOne == EvalNode("ONE", 0, "1")
PushNumber == \E t \in family.numbers : EvalNode("NUMBER", 0, t)
UnaryPlus == EvalNode("+", 1, "+")
UnaryMinus == EvalNode("-", 1, "-")
BinaryPlus == EvalNode("+", 2, "+")
BinaryMinus == EvalNode("-", 2, "-")
BinaryProd == EvalNode("*", 2, "*")
BinaryDiv == EvalNode("/", 2, "/")
BinaryInteract == EvalNode(":", 2, ":")
BinaryPower == EvalNode("**", 2, "**")
UnaryTilde == EvalNode("~", 1, "~")
BinaryTilde == EvalNode("~", 2, "~")

\* ModelDesc.from_formula(tree, env) on the one finished tree.
FromFormula ==
    /\ model = NotCalled
    /\ Len(stack) = 1
    /\ model' = from_formula_result(eval(stack[1].tree, stack[1].vals, FALSE))
    /\ UNCHANGED <<family, stack, nodes, text, model2, text2>>

Describe ==
    /\ IsMD(model)
    /\ text = <<>>
    /\ text' = describe(model)
    /\ UNCHANGED <<family, stack, nodes, model, model2, text2>>

FromFormulaText ==
    /\ text # <<>>
    /\ model2 = NotCalled
    /\ model2' = from_formula(text)
    /\ UNCHANGED <<family, stack, nodes, model, text, text2>>

DescribeAgain ==
    /\ IsMD(model2)
    /\ text2 = <<>>
    /\ text2' = describe(model2)
    /\ UNCHANGED <<family, stack, nodes, model, text, model2>>

Next ==
    \/ PushPythonExpr
    \/ PushZero
    \/ PushOne
    \/ PushNumber
    \/ UnaryPlus
    \/ UnaryMinus
    \/ BinaryPlus
    \/ BinaryMinus
    \/ BinaryProd
    \/ BinaryDiv
    \/ BinaryInteract
    \/ BinaryPower
    \/ UnaryTilde
    \/ BinaryTilde
    \/ FromFormula
    \/ Describe
    \/ FromFormulaText
    \/ DescribeAgain

Spec == Init /\ [][Next]_vars

\* ------------------------------------------------------ reading the state
\* A parse tree in prefix form: a leaf is its token text, a binary node its
\* type then its operands, a unary node "unary" then its type and operand.
RECURSIVE Prefix(_)
Prefix(tree) ==
    CASE Len(tree.args) = 0 -> <<tree.extra>>
      [] Len(tree.args) = 1 -> <<"unary", tree.type>> \o Prefix(tree.args[1])
      [] OTHER -> <<tree.type>> \o Prefix(tree.args[1]) \o Prefix(tree.args[2])

\* from_formula has been called on the formula with this prefix form.
Evaluated(formula) ==
    /\ model # NotCalled
    /\ Prefix(stack[1].tree) = formula

\* The node evaluated last, with its operands' results and its own.  Stack
\* entries never change and each one is the last entry in the state its
\* evaluation leaves, so what holds of the last entry in every reachable
\* state holds of every node ever evaluated.
LastEvaluated == IF stack = <<>> THEN {} ELSE {stack[Len(stack)]}

\* The node evaluated last, if it has the given type and arity and its
\* operands (those in `evaluated`) were evaluated without an error.
NodesOf(type, arity, evaluated) ==
    {e \in LastEvaluated :
        /\ e.tree.type = type
        /\ Len(e.tree.args) = arity
        /\ \A i \in evaluated : IsIE(e.vals[i])}

\* The intercept state of an IntermediateExpr.
InterceptState(expr) ==
    <<expr.intercept, expr.intercept_origin, expr.intercept_removed>>

\* ------------------------------------------------------------------ claims
\* The terms of seq that equal (Term equality) no earlier term of seq, in
\* the order of seq.
FirstOccurrences(seq) ==
    LET keep == {i \in DOMAIN seq : \A j \in 1..(i-1) : ~TermEq(seq[j], seq[i])}
    IN  [k \in 1..Cardinality(keep) |->
            seq[CHOOSE i \in keep : Cardinality({j \in keep : j <= i}) = k]]

\* The factors of seq that equal no earlier factor of seq, in the order of seq.
FirstFactors(seq) ==
    LET keep == {i \in DOMAIN seq : \A j \in 1..(i-1) : seq[j] # seq[i]}
    IN  [k \in 1..Cardinality(keep) |->
            seq[CHOOSE i \in keep : Cardinality({j \in keep : j <= i}) = k]]

\* For each term l of left in order and each term r of right in order, the
\* term of l's factors followed by r's factors.
Cross(left, right) ==
    [k \in 1..(Len(left) * Len(right)) |->
        FirstFactors(left[((k - 1) \div Len(right)) + 1]
                     \o right[((k - 1) % Len(right)) + 1])]

\* The concatenation of a sequence of sequences.
RECURSIVE Flatten(_)
Flatten(seqs) ==
    IF seqs = <<>> THEN <<>> ELSE Head(seqs) \o Flatten(Tail(seqs))

\* The error an operand's pending intercept raises.
InterceptConflict(expr) == CharltonError(MsgInteract, expr.intercept_origin)

\* A parse tree that is one interaction term: a factor, or x : y of two.
RECURSIVE IsInteractionTerm(_)
IsInteractionTerm(tree) ==
    \/ tree.type = "PYTHON_EXPR"
    \/ /\ tree.type = ":"
       /\ Len(tree.args) = 2
       /\ IsInteractionTerm(tree.args[1])
       /\ IsInteractionTerm(tree.args[2])

\* The formula evaluated is `t - t'` with t an interaction x : y : ... of
\* factors and t' an interaction of the same factors (in any order).
SelfCancelling ==
    /\ model # NotCalled
    /\ stack[1].tree.type = "~"
    /\ Len(stack[1].tree.args) = 1
    /\ LET minus == stack[1].tree.args[1] IN
       /\ minus.type = "-"
       /\ Len(minus.args) = 2
       /\ minus.args[1].type = ":"
       /\ minus.args[2].type = ":"
       /\ IsInteractionTerm(minus.args[1])
       /\ IsInteractionTerm(minus.args[2])
       /\ FactorsOf(minus.args[1]) = FactorsOf(minus.args[2])

\* The terms of seq that equal (Term equality) no term of gone, in the order
\* of seq.
Without(seq, gone) ==
    LET keep == {i \in DOMAIN seq :
                    \A j \in DOMAIN gone : Range(gone[j]) # Range(seq[i])}
    IN  [k \in 1..Cardinality(keep) |->
            seq[CHOOSE i \in keep : Cardinality({j \in keep : j <= i}) = k]]

\* C1: for a formula whose root is `~` (1 or 2 operands) and whose operands
\* evaluate without error, from_formula returns a ModelDesc whose left-hand
\* list is the left operand's terms with the intercept term prepended iff the
\* left operand declared an intercept (no terms and no intercept for the
\* 1-operand form), and whose right-hand list is the right operand's terms
\* with the intercept term prepended iff the right operand did not remove its
\* intercept.  With factors renamed in order of first use: `y ~ a + b` gives
\* lhs (y), rhs (intercept, a, b); `1 + y ~ a + b` gives lhs (intercept, y);
\* `0 + y ~ a + b` gives lhs (y).
C1_TildeTermLists ==
    /\ (/\ model # NotCalled
        /\ stack[1].tree.type = "~"
        /\ \A i \in DOMAIN stack[1].vals : IsIE(stack[1].vals[i]))
       => LET v == stack[1].vals
              right == v[Len(v)]
              lhs == IF Len(v) = 1 THEN <<>>
                     ELSE IF v[1].intercept THEN <<INTERCEPT>> \o v[1].terms
                     ELSE v[1].terms
              rhs == IF right.intercept_removed THEN right.terms
                     ELSE <<INTERCEPT>> \o right.terms
          IN  /\ IsMD(model)
              /\ model.lhs_termlist = lhs
              /\ model.rhs_termlist = rhs
    /\ Evaluated(<<"~", "a", "+", "b", "c">>)
       => /\ model.lhs_termlist = << <<"a">> >>
          /\ model.rhs_termlist = << <<>>, <<"b">>, <<"c">> >>
    /\ Evaluated(<<"~", "+", "1", "a", "+", "b", "c">>)
       => /\ model.lhs_termlist = << <<>>, <<"a">> >>
          /\ model.rhs_termlist = << <<>>, <<"b">>, <<"c">> >>
    /\ Evaluated(<<"~", "+", "0", "a", "+", "b", "c">>)
       => /\ model.lhs_termlist = << <<"a">> >>
          /\ model.rhs_termlist = << <<>>, <<"b">>, <<"c">> >>

\* `1 + y ~ a + b` has been evaluated to a ModelDesc.
C1_Witness ==
    /\ Evaluated(<<"~", "+", "1", "a", "+", "b", "c">>)
    /\ IsMD(model)

\* C2: binary `+` whose left operand evaluates without error.  If the right
\* operand node is the literal 0, the result has its intercept removed and
\* exactly the left operand's terms, whatever the left intercept state.
\* Otherwise the terms are left.terms followed by right.terms, duplicates
\* dropped keeping the first occurrence, and the intercept state is (present,
\* right's intercept origin, not removed) when the right operand declares an
\* intercept and the left operand's state otherwise.  So `1 + 0` has no
\* intercept, `0 + 1` has one, `1 + (a + 0)` keeps its intercept, and after a
\* step `+ 0`, `+ 1`, `- 0` or `- 1` the intercept is present or removed as
\* that step alone says.
C2_BinaryPlus ==
    /\ \A e \in NodesOf("+", 2, {1}) :
          LET left == e.vals[1]
              right == e.vals[2]
          IN  IF e.tree.args[2].type = "ZERO"
              THEN /\ IsIE(e.value)
                   /\ ~e.value.intercept
                   /\ e.value.intercept_removed
                   /\ e.value.terms = left.terms
              ELSE IsIE(right) =>
                   /\ IsIE(e.value)
                   /\ e.value.terms = FirstOccurrences(left.terms \o right.terms)
                   /\ InterceptState(e.value) =
                         IF right.intercept
                         THEN <<TRUE, right.intercept_origin, FALSE>>
                         ELSE InterceptState(left)
    /\ \A e \in NodesOf("+", 2, {1}) \cup NodesOf("-", 2, {1}) :
          e.tree.args[2].type \in {"ZERO", "ONE"} =>
              LET present == (e.tree.type = "+") = (e.tree.args[2].type = "ONE")
              IN  /\ IsIE(e.value)
                  /\ e.value.intercept = present
                  /\ e.value.intercept_removed = ~present
    /\ \A e \in LastEvaluated :
          /\ Prefix(e.tree) = <<"+", "1", "0">> =>
                ~e.value.intercept /\ e.value.intercept_removed
          /\ Prefix(e.tree) = <<"+", "0", "1">> =>
                e.value.intercept /\ ~e.value.intercept_removed
          /\ Prefix(e.tree) = <<"+", "1", "+", "a", "0">> =>
                e.value.intercept /\ ~e.value.intercept_removed
          /\ Prefix(e.tree) = <<"+", "-", "-", "0", "1", "1", "0">> =>
                ~e.value.intercept /\ e.value.intercept_removed

\* `~ 1 + (a + 0)` has been evaluated: the removal inside the right operand
\* is ignored and the model keeps its intercept.
C2_Witness ==
    /\ Evaluated(<<"unary", "~", "+", "1", "+", "a", "0">>)
    /\ IsMD(model)
    /\ model.rhs_termlist = << <<>>, <<"a">> >>

\* C3: binary `-` whose left operand evaluates without error.  Right operand
\* the literal 0: intercept present, its origin the right node's own origin,
\* and the left operand's terms.  Right operand the literal 1: intercept
\* removed and the left operand's terms.  Otherwise: the left operand's
\* terms, in their order, without every term equal to some term of the right
\* operand; the intercept is removed if the right operand declared an
\* intercept, and else the left operand's intercept state unchanged.
C3_BinaryMinus ==
    /\ \A e \in NodesOf("-", 2, {1}) :
          LET left == e.vals[1]
              right == e.vals[2]
              rnode == e.tree.args[2]
          IN  CASE rnode.type = "ZERO" ->
                     /\ IsIE(e.value)
                     /\ InterceptState(e.value) = <<TRUE, rnode.origin, FALSE>>
                     /\ e.value.terms = left.terms
                [] rnode.type = "ONE" ->
                     /\ IsIE(e.value)
                     /\ ~e.value.intercept
                     /\ e.value.intercept_removed
                     /\ e.value.terms = left.terms
                [] OTHER ->
                     IsIE(right) =>
                     /\ IsIE(e.value)
                     /\ e.value.terms = Without(left.terms, right.terms)
                     /\ IF right.intercept
                        THEN ~e.value.intercept /\ e.value.intercept_removed
                        ELSE InterceptState(e.value) = InterceptState(left)
    /\ \A e \in LastEvaluated :
          /\ Prefix(e.tree) = <<"-", "+", "a", "b", "+", "a", "b">> =>
                e.value.terms = <<>> /\ ~e.value.intercept_removed
          /\ Prefix(e.tree) = <<"-", "1", "+", "a", "1">> =>
                e.value.terms = <<>> /\ e.value.intercept_removed
          /\ Prefix(e.tree) = <<"-", "1", "a">> =>
                e.value.terms = <<>> /\ e.value.intercept

\* A subtraction such as `1 + a - (a + 1)` has been evaluated: the right
\* operand is no literal and declares an intercept, the left operand had an
\* intercept, and a term of the left operand is removed.
C3_Witness ==
    \E e \in NodesOf("-", 2, {1, 2}) :
        /\ e.tree.args[2].type \notin {"ZERO", "ONE"}
        /\ e.vals[1].intercept
        /\ e.vals[2].intercept
        /\ Len(e.vals[1].terms) = 1
        /\ e.value.terms = <<>>
        /\ e.value.intercept_removed

\* C4 as stated: `t - t'`, t' a reordering of the factors of the interaction
\* term t, evaluated through from_formula yields an empty right-hand term
\* list.
C4_EmptyRightHandList ==
    SelfCancelling => IsMD(model) /\ model.rhs_termlist = <<>>

\* C4, amended: `t - t'` evaluated through from_formula yields a right-hand
\* term list that holds the intercept term and nothing else (the subtraction
\* leaves no term, and the right-hand side keeps its implicit intercept);
\* the left-hand list is empty.
C4_SelfCancellation ==
    SelfCancelling =>
        /\ IsMD(model)
        /\ model.rhs_termlist = <<INTERCEPT>>
        /\ model.lhs_termlist = <<>>
        /\ stack[1].vals[1].terms = <<>>

\* `a:b - b:a` has been evaluated.
C4_Witness ==
    /\ Evaluated(<<"unary", "~", "-", ":", "a", "b", ":", "b", "a">>)
    /\ IsMD(model)

\* C5: `:` whose operands evaluate without error.  A pending intercept of the
\* left operand, else of the right operand, fails with "intercept term cannot
\* interact with anything else" at that intercept's origin (for `a:1`, the 1
\* node).  Otherwise the result has no intercept and no intercept removal and
\* its terms are exactly, for each left term in order and each right term in
\* order, the term of the left term's factors followed by the right term's
\* (duplicate factors and duplicate terms dropped keeping the first): nothing
\* else, so no operand term as a main effect, is added.
C5_Interaction ==
    /\ \A e \in NodesOf(":", 2, {1, 2}) :
          LET left == e.vals[1]
              right == e.vals[2]
          IN  IF left.intercept THEN e.value = InterceptConflict(left)
              ELSE IF right.intercept THEN e.value = InterceptConflict(right)
              ELSE /\ IsIE(e.value)
                   /\ InterceptState(e.value) = <<FALSE, None, FALSE>>
                   /\ e.value.terms =
                         FirstOccurrences(Cross(left.terms, right.terms))
    /\ \A e \in LastEvaluated :
          /\ Prefix(e.tree) = <<":", "a", "1">> =>
                e.value = CharltonError(MsgInteract, e.tree.args[2].origin)
          /\ Prefix(e.tree) = <<":", "1", "1">> =>
                e.value = CharltonError(MsgInteract, e.tree.args[1].origin)
          /\ Prefix(e.tree) = <<":", "+", "a", "b", "c">> =>
                e.value.terms = << <<"a", "c">>, <<"b", "c">> >>
          /\ Prefix(e.tree) = <<":", ":", "a", "b", "a">> =>
                e.value.terms = << <<"a", "b">> >>

\* `(a + b):(b + c)` has been evaluated: an interaction of two terms with two
\* terms, giving four.
C5_Witness ==
    \E e \in Range(stack) :
        /\ Prefix(e.tree) = <<":", "+", "a", "b", "+", "b", "c">>
        /\ IsIE(e.value)
        /\ Len(e.value.terms) = 4

\* C6: `*` whose operands evaluate without error.  Without a pending
\* intercept the terms are left.terms, then right.terms, then the terms of
\* the interaction of left and right, duplicates dropped keeping the first
\* occurrence: `a * b` gives (a, b, a:b) and `a * b * a` the same list.  A
\* pending intercept of either operand, as in `(a + 1)*b`, fails at that
\* intercept's origin.
C6_Crossing ==
    /\ \A e \in NodesOf("*", 2, {1, 2}) :
          LET left == e.vals[1]
              right == e.vals[2]
          IN  IF left.intercept THEN e.value = InterceptConflict(left)
              ELSE IF right.intercept THEN e.value = InterceptConflict(right)
              ELSE /\ IsIE(e.value)
                   /\ e.value.terms =
                         FirstOccurrences(left.terms \o right.terms
                                          \o Cross(left.terms, right.terms))
    /\ \A e \in LastEvaluated :
          /\ Prefix(e.tree) = <<"*", "a", "b">> =>
                e.value.terms = << <<"a">>, <<"b">>, <<"a", "b">> >>
          /\ Prefix(e.tree) = <<"*", "*", "a", "b", "a">> =>
                e.value.terms = << <<"a">>, <<"b">>, <<"a", "b">> >>
          /\ Prefix(e.tree) = <<"*", "+", "a", "1", "b">> =>
                e.value = CharltonError(MsgInteract, e.tree.args[1].args[2].origin)

\* `a * b * a` has been evaluated.
C6_Witness ==
    \E e \in Range(stack) :
        /\ Prefix(e.tree) = <<"*", "*", "a", "b", "a">>
        /\ IsIE(e.value)

\* C7: `/` whose operands evaluate without error.  Without a pending
\* intercept the terms are left.terms followed by, for each right term r in
\* order, the one term whose factors are all factors of all left terms (in
\* first-seen order) followed by r's factors, as the unique-ordered list
\* every IntermediateExpr holds (a term equal to an earlier one is not
\* repeated); at most as many terms as the right operand has are added,
\* however many the left operand has.  `(a + b)/c` gives (a, b, a:b:c) and
\* `a/(b + c)` gives (a, a:b, a:c).  A pending intercept of the left or of
\* the right operand fails.
C7_Nesting ==
    /\ \A e \in NodesOf("/", 2, {1, 2}) :
          LET left == e.vals[1]
              right == e.vals[2]
              combined == FirstFactors(Flatten(left.terms))
              added == [i \in 1..Len(right.terms) |->
                           FirstFactors(combined \o right.terms[i])]
          IN  IF left.intercept \/ right.intercept
              THEN /\ IsErr(e.value)
                   /\ e.value.msg = MsgInteract
              ELSE /\ IsIE(e.value)
                   /\ e.value.terms = FirstOccurrences(left.terms \o added)
                   /\ SubSeq(e.value.terms, 1, Len(left.terms)) = left.terms
                   /\ Len(e.value.terms) <= Len(left.terms) + Len(right.terms)
    /\ \A e \in LastEvaluated :
          /\ Prefix(e.tree) = <<"/", "+", "a", "b", "c">> =>
                e.value.terms = << <<"a">>, <<"b">>, <<"a", "b", "c">> >>
          /\ Prefix(e.tree) = <<"/", "a", "+", "b", "c">> =>
                e.value.terms = << <<"a">>, <<"a", "b">>, <<"a", "c">> >>

\* `(a + b)/(b + c)` has been evaluated: a right operand of two terms nested
\* under a left operand of two terms adds two terms, not four.
C7_Witness ==
    \E e \in Range(stack) :
        /\ Prefix(e.tree) = <<"/", "+", "a", "b", "+", "b", "c">>
        /\ IsIE(e.value)
        /\ Len(e.value.terms) = 4

\* The terms of interaction order k of a term list: order 1 is the list,
\* order k the list interacted with order k - 1.
RECURSIVE Order(_, _)
Order(terms, k) ==
    IF k = 1 THEN terms
    ELSE FirstOccurrences(Cross(terms, Order(terms, k - 1)))

\* The term list followed by its interaction orders 2 .. top.
Expansion(terms, top) ==
    FirstOccurrences(Flatten([k \in 1..top |-> Order(terms, k)]))

\* The `**` nodes on the stack with an acceptable exponent and a left
\* operand that evaluated to an expression without a pending intercept.
Powers ==
    {e \in NodesOf("**", 2, {1}) :
        /\ ~e.vals[1].intercept
        /\ e.tree.args[2].type \in {"ONE", "NUMBER"}
        /\ int(e.tree.args[2].extra) >= 1}

\* C8: `**` with a left operand of n terms without a pending intercept and a
\* positive integer literal exponent p.  The terms are left.terms followed
\* by the interaction orders 2 .. min(n, p), each the original left terms
\* interacted with the previous order, deduplicated keeping the first
\* occurrence.  The cap loses nothing: the list is the one the expansion up
\* to p itself gives.  For n single-factor terms it is exactly one term for
\* every non-empty set of at most min(n, p) of the factors: `(a+b+c)**2`
\* gives the 3 main effects and exactly the three 2-way interactions.
C8_Power ==
    /\ \A e \in Powers :
          LET left == e.vals[1].terms
              n == Len(left)
              p == int(e.tree.args[2].extra)
              top == IF n < p THEN n ELSE p
              subsets == {S \in SUBSET UNION {Range(t) : t \in Range(left)} :
                             Cardinality(S) >= 1 /\ Cardinality(S) <= top}
          IN  /\ IsIE(e.value)
              /\ e.value.terms = Expansion(left, top)
              /\ e.value.terms = Expansion(left, p)
              /\ (\A i \in DOMAIN left : Len(left[i]) = 1) =>
                    /\ {Range(t) : t \in Range(e.value.terms)} = subsets
                    /\ Len(e.value.terms) = Cardinality(subsets)
    /\ \A e \in LastEvaluated :
          /\ Prefix(e.tree) = <<"**", "+", "+", "a", "b", "c", "2">> =>
                e.value.terms = << <<"a">>, <<"b">>, <<"c">>,
                                   <<"a", "b">>, <<"a", "c">>, <<"b", "c">> >>
          /\ Prefix(e.tree) = <<"**", "a", "2">> =>
                e.value.terms = << <<"a">> >>

\* `(a + b + c)**3` and powers above the number of terms have been
\* evaluated: here a left operand of two terms raised to the power 3.
C8_Witness ==
    \E e \in Powers :
        /\ Len(e.vals[1].terms) = 2
        /\ int(e.tree.args[2].extra) = 3
        /\ Len(e.value.terms) = 3

\* items joined with " + ", as lexemes.
PlusJoined(items) ==
    Flatten([i \in 1..Len(items) |->
                IF i = 1 THEN items[1] ELSE <<"+">> \o items[i]])

\* A term as describe() writes it: 1 for the intercept term, else the factor
\* names joined with ":".
Written(term) ==
    IF term = <<>> THEN <<"1">>
    ELSE Flatten([i \in 1..Len(term) |->
                     IF i = 1 THEN <<term[1]>> ELSE <<":", term[i]>>])

\* C9: for every formula f that evaluates to a ModelDesc, d = describe() of
\* it is a fixed point: from_formula(d) succeeds and describing it gives d
\* again (and it has the same term lists).  describe() writes the intercept
\* term as 1, a right-hand side that is exactly (intercept) as 1, a leading 0
\* when the intercept is not in the right-hand list, and joins the remaining
\* term names with " + ".
C9_DescribeRoundTrip ==
    /\ model2 # NotCalled =>
          /\ IsMD(model2)
          /\ model2.lhs_termlist = model.lhs_termlist
          /\ model2.rhs_termlist = model.rhs_termlist
    /\ text2 # <<>> => text2 = text
    /\ text # <<>> =>
          LET rhs == model.rhs_termlist
              lhs == model.lhs_termlist
              rest == Without(rhs, <<INTERCEPT>>)
              names == [i \in 1..Len(rest) |-> Written(rest[i])]
          IN  text =
                 PlusJoined([i \in 1..Len(lhs) |-> Written(lhs[i])])
                 \o <<"~">>
                 \o (IF rhs = <<INTERCEPT>> THEN <<"1">>
                     ELSE IF \E i \in DOMAIN rhs : rhs[i] = INTERCEPT
                     THEN PlusJoined(names)
                     ELSE PlusJoined(<< <<"0">> >> \o names))
    /\ text # <<>> /\ Evaluated(<<"~", "1", "0">>) => text = <<"1", "~", "0">>
    /\ text # <<>> /\ Evaluated(<<"~", "1", "1">>) => text = <<"1", "~", "1">>
    /\ text # <<>> /\ Evaluated(<<"~", "1", "a">>) => text = <<"1", "~", "a">>
    /\ text # <<>> /\ Evaluated(<<"unary", "~", "0">>) => text = <<"~", "0">>
    /\ text # <<>> /\ Evaluated(<<"unary", "~", "+", "0", ":", "a", "b">>) =>
          text = <<"~", "0", "+", "a", ":", "b">>

\* `1 + a ~ 0 + b` has been evaluated, described as "1 + a ~ 0 + b",
\* evaluated again from that text and described again.
C9_Witness ==
    /\ text = <<"1", "+", "a", "~", "0", "+", "b">>
    /\ text2 # <<>>

\* Some node below the root of tree is a `~` node.
RECURSIVE HasTilde(_)
HasTilde(tree) ==
    \/ tree.type = "~"
    \/ \E i \in DOMAIN tree.args : HasTilde(tree.args[i])

HasInnerTilde(tree) == \E i \in DOMAIN tree.args : HasTilde(tree.args[i])

\* The origins of the `~` nodes below the root of tree.
RECURSIVE TildeOrigins(_)
TildeOrigins(tree) ==
    (IF tree.type = "~" THEN {tree.origin} ELSE {})
    \cup UNION {TildeOrigins(tree.args[i]) : i \in DOMAIN tree.args}

InnerTildeOrigins(tree) ==
    UNION {TildeOrigins(tree.args[i]) : i \in DOMAIN tree.args}

\* C10 as stated: for every tree with a `~` node below the root, evaluation
\* fails with "~ can only be used once, and only at the top level" carrying
\* the origin of that inner `~` node.
C10_AlwaysTheSeparatorError ==
    (model # NotCalled /\ HasInnerTilde(stack[1].tree)) =>
        /\ IsErr(model)
        /\ model.msg = MsgTilde
        /\ model.origin \in InnerTildeOrigins(stack[1].tree)

\* C10, amended: for every tree with a `~` node below the root, evaluation
\* fails and no ModelDesc is returned.  eval of a `~` node with
\* require_evalexpr true always raises, and raises "~ can only be used once,
\* and only at the top level" with that node's origin when the node's own
\* operands evaluate without error; this is the error from_formula raises
\* when the node is an operand of the root `~` and the root's operands
\* before it evaluate without error.  (Another error is raised instead when
\* an operand of the inner `~` or a node evaluated before it fails, or when
\* its parent does not evaluate it: unary minus, the exponent of `**`.)  A
\* `~` node is accepted only at the root, evaluated with require_evalexpr
\* false by from_formula.
C10_MisplacedSeparator ==
    /\ \A e \in LastEvaluated :
          e.tree.type = "~" =>
              /\ IsErr(e.value)
              /\ (\A i \in DOMAIN e.vals : IsIE(e.vals[i])) =>
                    e.value = CharltonError(MsgTilde, e.tree.origin)
    /\ model # NotCalled =>
          LET root == stack[1].tree IN
          /\ HasInnerTilde(root) => IsErr(model)
          /\ IsMD(model) => root.type = "~" /\ ~HasInnerTilde(root)
          /\ root.type = "~" =>
                \A i \in DOMAIN root.args :
                    (/\ root.args[i].type = "~"
                     /\ \A j \in 1..(i-1) : IsIE(stack[1].vals[j])
                     /\ \A j \in DOMAIN root.args[i].args :
                           IsIE(eval_tree(root.args[i].args[j], TRUE)))
                    => model = CharltonError(MsgTilde, root.args[i].origin)

\* `(a ~ b) ~ a` has been evaluated and failed at the inner `~`.
C10_Witness ==
    /\ Evaluated(<<"~", "~", "a", "b", "a">>)
    /\ model = CharltonError(MsgTilde, stack[1].tree.args[1].origin)

\* C11: no evaluation of a node fails an assertion of the IntermediateExpr
\* constructor, and every IntermediateExpr a node evaluates to has intercept
\* and intercept_removed never both true and an intercept_origin whenever
\* intercept is true.  (Every parse node carries an origin.)
C11_IntermediateExprInvariant ==
    \A e \in LastEvaluated :
        /\ IsErr(e.value) => e.value.msg # MsgAssert
        /\ IsIE(e.value) =>
              /\ ~(e.value.intercept /\ e.value.intercept_removed)
              /\ e.value.intercept => e.value.intercept_origin # None

\* A binary `+` whose left operand had its intercept removed and whose right
\* operand declares one has been evaluated: the result has the intercept,
\* with the right operand's origin, and is no longer marked removed.
C11_Witness ==
    \E e \in LastEvaluated :
        /\ e.tree.type = "+"
        /\ Len(e.tree.args) = 2
        /\ IsIE(e.vals[1]) /\ e.vals[1].intercept_removed
        /\ e.vals[1].terms # <<>>
        /\ IsIE(e.vals[2]) /\ e.vals[2].intercept
        /\ IsIE(e.value)
        /\ e.value.intercept /\ ~e.value.intercept_removed
        /\ e.value.intercept_origin = e.vals[2].intercept_origin

\* No two terms of the list are equal (Term equality).
NoEqualTerms(terms) ==
    \A i, j \in DOMAIN terms : TermEq(terms[i], terms[j]) => i = j

\* C12: the terms of every IntermediateExpr a node evaluates to never
\* contain the intercept term (the Term with no factors); for `/` over a
\* left operand without terms the one combined left term is the empty Term
\* and the result, when neither operand has an intercept pending, is still
\* exactly the right operand's terms.  Every
\* ModelDesc returned by from_formula has no two equal terms in either list,
\* and the intercept term occurs in each list at most once and only first.
C12_NoInterceptTerm ==
    /\ \A e \in LastEvaluated :
          IsIE(e.value) =>
              \A i \in DOMAIN e.value.terms :
                  ~TermEq(e.value.terms[i], INTERCEPT)
    /\ \A e \in NodesOf("/", 2, {1, 2}) :
          (/\ e.vals[1].terms = <<>>
           /\ ~e.vals[1].intercept
           /\ ~e.vals[2].intercept) =>
              /\ IsIE(e.value)
              /\ e.value.terms = e.vals[2].terms
    /\ \A md \in {m \in {model, model2} : IsMD(m)} :
          \A list \in {md.lhs_termlist, md.rhs_termlist} :
              /\ NoEqualTerms(list)
              /\ \A i \in DOMAIN list : TermEq(list[i], INTERCEPT) => i = 1

\* `0 / a` has been evaluated: the left operand has no terms, the combined
\* left term is the empty Term, and the result is the one term a.
C12_Witness ==
    \E e \in LastEvaluated :
        /\ Prefix(e.tree) = <<"/", "0", "a">>
        /\ IsIE(e.value)
        /\ e.value.terms = << <<"a">> >>

====
